---- MODULE Spec2Model ----
(***************************************************************************)
(* Model of the watermark-removal application: App (src/App.tsx) and its   *)
(* masking canvas CanvasBoard (src/components/CanvasBoard.tsx).            *)
(*                                                                         *)
(* Every React event handler is one action.  A handler's state updates,    *)
(* the re-render they cause and the effects of that render (the image-load *)
(* effect and the onMaskChange effect) are part of the same action.  The   *)
(* asynchronous callbacks (FileReader.onload, Image.onload, the settling   *)
(* of removeWatermark) are actions of their own.                           *)
(*                                                                         *)
(* JavaScript numbers are modelled as exact rationals <<n, d>>, d > 0, in  *)
(* lowest terms: IEEE-754 rounding is abstracted away.                     *)
(***************************************************************************)
EXTENDS Integers, Sequences, FiniteSets, TLC

(***************************************************************************)
(* Program constants.                                                      *)
(***************************************************************************)
DefaultBrush == 40
BrushMin == 5
BrushSizes == {BrushMin, DefaultBrush}

\* null, for a variable that holds an image (a data URL or an Image object).
Null == [id |-> "null", gen |-> 0]
DRAW == "draw"
PAN == "pan"
ToolMode == {DRAW, PAN}

(***************************************************************************)
(* Exact rational arithmetic.                                              *)
(***************************************************************************)
Abs(n) == IF n < 0 THEN -n ELSE n

RECURSIVE GCD(_, _)
GCD(a, b) == IF b = 0 THEN a ELSE GCD(b, a % b)

Norm(n, d) ==
    LET s == IF d < 0 THEN -1 ELSE 1
        g == GCD(Abs(n), Abs(d))
    IN  <<(s * n) \div g, (s * d) \div g>>

Rat(n) == <<n, 1>>
RAdd(a, b) == Norm(a[1] * b[2] + b[1] * a[2], a[2] * b[2])
RSub(a, b) == Norm(a[1] * b[2] - b[1] * a[2], a[2] * b[2])
RMul(a, b) == Norm(a[1] * b[1], a[2] * b[2])
RDiv(a, b) == Norm(a[1] * b[2], a[2] * b[1])
RLe(a, b) == a[1] * b[2] <= b[1] * a[2]
RLt(a, b) == a[1] * b[2] < b[1] * a[2]
RMin(a, b) == IF RLe(a, b) THEN a ELSE b
RMax(a, b) == IF RLe(a, b) THEN b ELSE a

Pt(x, y) == [x |-> x, y |-> y]
Origin == Pt(Rat(0), Rat(0))

(***************************************************************************)
(* Inputs.                                                                 *)
(***************************************************************************)
\* Uploaded files, as decoded images.
Uploads == {[id |-> "A", gen |-> 0], [id |-> "B", gen |-> 0]}
Width(img) == IF img.id = "A" THEN 100 ELSE 4000
Height(img) == IF img.id = "A" THEN 100 ELSE 1000
\* clientWidth, clientHeight of the canvas container.
ContainerSizes == {<<200, 100>>}
\* Pointer positions relative to the canvas.
ScreenPts == {Pt(Rat(20), Rat(10)), Pt(Rat(120), Rat(60))}
\* WheelEvent.deltaY
WheelDeltas == {-20000, -100, 20000}

VARIABLES
    \* App state
    imageSrc, resultImage, mode, brushSize, isProcessing, hasMask, showCompare,
    \* pending FileReader loads and the removeWatermark call in flight
    readers, request,
    \* CanvasBoard state
    scale, offset, isDragging, lastPos, paths, currentPath, imgObj,
    \* Image objects whose onload has not run yet
    loads,
    \* history: the last event handled, the gesture in progress, event counts
    op, gesture, nWheel, nPan

appVars == <<imageSrc, resultImage, mode, brushSize, isProcessing, hasMask, showCompare>>
envVars == <<readers, request>>
boardVars == <<scale, offset, isDragging, lastPos, paths, currentPath, imgObj>>
histVars == <<op, gesture, nWheel, nPan>>
vars == <<appVars, envVars, boardVars, loads, histVars>>


(***************************************************************************)
(* CanvasBoard: pure helpers.                                              *)
(***************************************************************************)
MarginFactor == <<9, 10>>
MinScale == <<1, 10>>
MaxScale == <<10, 1>>
ZoomSensitivity == <<1, 1000>>

\* img.onload: scale that fits the image into the container.
FitScaleNoCap(img, c) ==
    LET scaleX == RDiv(Rat(c[1]), Rat(Width(img)))
        scaleY == RDiv(Rat(c[2]), Rat(Height(img)))
    IN  RMul(RMin(scaleX, scaleY), MarginFactor)

FitScale(img, c) ==
    LET scaleX == RDiv(Rat(c[1]), Rat(Width(img)))
        scaleY == RDiv(Rat(c[2]), Rat(Height(img)))
    IN  RMul(RMin(RMin(scaleX, scaleY), Rat(1)), MarginFactor)

\* img.onload: offset that centers the scaled image.
FitOffset(img, c) ==
    LET fitScale == FitScale(img, c)
    IN  Pt(RDiv(RSub(Rat(c[1]), RMul(Rat(Width(img)), fitScale)), Rat(2)),
           RDiv(RSub(Rat(c[2]), RMul(Rat(Height(img)), fitScale)), Rat(2)))

\* Inverse of translate + scale, with the scale and offset of the current render.
GetCanvasCoordsNoOffset(screenPos) ==
    Pt(RDiv(screenPos.x, scale), RDiv(screenPos.y, scale))

GetCanvasCoords(screenPos) ==
    Pt(RDiv(RSub(screenPos.x, offset.x), scale),
       RDiv(RSub(screenPos.y, offset.y), scale))

\* handleWheel: the clamped new scale.
ZoomScaleNoClamp(deltaY) ==
    RAdd(scale, RMul(Rat(-deltaY), ZoomSensitivity))

ZoomScale(deltaY) ==
    LET delta == RMul(Rat(-deltaY), ZoomSensitivity)
    IN  RMin(RMax(MinScale, RAdd(scale, delta)), MaxScale)

\* handleWheel: the offset that keeps the point under the mouse stable.
ZoomOffsetNoRatio(mouse, newScale) ==
    Pt(RSub(mouse.x, RMul(RSub(mouse.x, offset.x), newScale)),
       RSub(mouse.y, RMul(RSub(mouse.y, offset.y), newScale)))

ZoomOffset(mouse, newScale) ==
    LET scaleRatio == RDiv(newScale, scale)
    IN  Pt(RSub(mouse.x, RMul(RSub(mouse.x, offset.x), scaleRatio)),
           RSub(mouse.y, RMul(RSub(mouse.y, offset.y), scaleRatio)))

\* The value the onMaskChange effect reports for a stroke list.
MaskChangeEffectOffByOne(p) == Len(p) > 1

MaskChangeEffect(p) == Len(p) > 0

\* handlePointerMove: [...prev, canvasPos]
ExtendPathPrepend(prev, canvasPos) == <<canvasPos>> \o prev

ExtendPath(prev, canvasPos) == Append(prev, canvasPos)

\* The stroke handlePointerUp commits.
NewStrokeBrushAtDown == [points |-> currentPath, size |-> gesture.brush]

NewStroke == [points |-> currentPath, size |-> brushSize]

\* handlePointerUp: [...prev, { points: currentPath, size: brushSize }]
CommitPathInFront(prev) == <<NewStroke>> \o prev

CommitPath(prev) == Append(prev, NewStroke)

\* handlePointerUp: the candidate stroke it leaves.
UpCurrentPathKept == currentPath

UpCurrentPath == <<>>

\* undo: prev.slice(0, -1)
SliceDropTwo(prev) == SubSeq(prev, 1, Len(prev) - 2)

SliceDropFirst(prev) == IF prev = <<>> THEN <<>> ELSE Tail(prev)

SliceDropLast(prev) == SubSeq(prev, 1, Len(prev) - 1)

\* lineWidth of a stroke in the exported mask.
MaskLineWidthScaled(path) == RDiv(Rat(path.size), scale)

MaskLineWidth(path) == Rat(path.size)

\* drawPath of the live preview: ctx.lineWidth, set after ctx.scale(scale, scale)
\* and therefore in image-space units.
PreviewLineWidth(path) == RDiv(Rat(path.size), scale)

\* paths.forEach of getMaskDataURL: one draw command per stroke with a point.
RECURSIVE MaskStrokes(_)
MaskStrokes(ps) ==
    IF ps = <<>> THEN <<>>
    ELSE LET path == Head(ps)
         IN  IF Len(path.points) < 1 THEN MaskStrokes(Tail(ps))
             ELSE <<[lineWidth |-> MaskLineWidth(path), points |-> path.points]>>
                  \o MaskStrokes(Tail(ps))

\* getMaskDataURL returning null.
NoMask == [width |-> 0, height |-> 0, strokes |-> <<>>, over |-> Null]

\* getMaskDataURL without its early return.
GetMaskDataURLNoGuard ==
    [width |-> Width(imgObj), height |-> Height(imgObj),
     strokes |-> MaskStrokes(paths), over |-> imgObj]

\* getMaskDataURL: null without an image, else the mask canvas: the image's
\* width and height, filled black, the strokes painted white in list order.
\* "over" records which image object the mask canvas was sized from.
GetMaskDataURL ==
    IF imgObj = Null THEN NoMask
    ELSE [width |-> Width(imgObj), height |-> Height(imgObj),
          strokes |-> MaskStrokes(paths), over |-> imgObj]

\* removeWatermark's resolved value: an edit of the original image.
Result(original) == [id |-> original.id, gen |-> original.gen + 1]

\* What handleProcess found when it made the call (history, kept with the
\* call in flight): the result image, the comparison flag, the strokes.
Before == [resultImage |-> resultImage, showCompare |-> showCompare, paths |-> paths]

\* No removeWatermark call in flight.
NoRequest ==
    [original |-> Null, mask |-> NoMask,
     before |-> [resultImage |-> Null, showCompare |-> FALSE, paths |-> <<>>]]

(***************************************************************************)
(* History variables.                                                      *)
(***************************************************************************)
\* The last event handled: its name, its position (the mouse position of a
\* wheel event, the container's width and height of an image load, Origin
\* otherwise) and the number of committed strokes it found.  For an undo
\* also the run of undos it belongs to: how many undos have been handled in
\* a row with nothing else between them (counted up to MaxUndoRun) and the
\* number of committed strokes the first of them found.
MaxUndoRun == 3

Op(name) == [name |-> name, pos |-> Origin, had |-> Len(paths), run |-> 0, start |-> 0]
OpAt(name, pos) == [Op(name) EXCEPT !.pos = pos]
OpUndo ==
    IF op.name = "undo"
    THEN [Op("undo") EXCEPT !.run = IF op.run < MaxUndoRun THEN op.run + 1 ELSE op.run,
                            !.start = op.start]
    ELSE [Op("undo") EXCEPT !.run = 1, !.start = Len(paths)]

\* The pointer gesture since the last pointer-down:
\*   down      a pointer-down was delivered and no pointer-up since
\*   clean     every event of the gesture was handled with an image loaded
\*             and the paint mode selected
\*   moves     the pointer-moves delivered since the pointer-down
\*   pts       the image-space points of the gesture's events, in order
\*   brush     the brush diameter at the pointer-down
\*   committed the pointer-up that ended it appended a stroke
\*   mode      the tool mode at the pointer-down
\*   pan       the pointer-down and every event since were handled with an
\*             image loaded and the pan mode selected, and nothing else
\*             (wheel, image load) has set the viewport since
\*   from      the screen point of the pointer-down (while pan)
\*   offset0   the offset at the pointer-down (while pan)
\*   panned    a pointer-move of the gesture changed the offset
\*   drew      a pointer-move of the gesture appended a point
\*   img       the image loaded at the pointer-down
NoGesture ==
    [down |-> FALSE, clean |-> FALSE, moves |-> 0, pts |-> <<>>, brush |-> 0,
     committed |-> FALSE, mode |-> DRAW, pan |-> FALSE, from |-> Origin,
     offset0 |-> Origin, panned |-> FALSE, drew |-> FALSE, img |-> Null]

\* A finished gesture is remembered until the next event only.
Keep(g) == IF g.down THEN g ELSE NoGesture

\* The gesture is no longer a plain pan.
NoPan(g) == [g EXCEPT !.pan = FALSE, !.from = Origin, !.offset0 = Origin]

\* Something other than a pointer-move has set the viewport.
Disturbed(g) == IF g.down THEN NoPan(g) ELSE NoGesture

(***************************************************************************)
(* Initial state: App before any upload; CanvasBoard is not mounted, its   *)
(* variables hold the useState initial values it mounts with.              *)
(***************************************************************************)
BoardInit ==
    /\ scale = Rat(1)
    /\ offset = Origin
    /\ isDragging = FALSE
    /\ lastPos = Origin
    /\ paths = <<>>
    /\ currentPath = <<>>
    /\ imgObj = Null

Init ==
    /\ imageSrc = Null
    /\ resultImage = Null
    /\ mode = DRAW
    /\ brushSize = DefaultBrush
    /\ isProcessing = FALSE
    /\ hasMask = FALSE
    /\ showCompare = FALSE
    /\ readers = {}
    /\ request = NoRequest
    /\ BoardInit
    /\ loads = {}
    /\ op = Op("init")
    /\ gesture = NoGesture
    /\ nWheel = 0
    /\ nPan = 0

\* CanvasBoard is rendered only while App has an image source.
Mounted == imageSrc # Null

\* The loading overlay or the comparison view lies over the canvas.
Covered == isProcessing \/ (showCompare /\ resultImage # Null)


(***************************************************************************)
(* CanvasBoard: pointer and wheel handlers.                                *)
(***************************************************************************)
handlePointerDown(pos) ==
    /\ Mounted /\ ~Covered
    /\ IF imgObj = Null
       THEN UNCHANGED <<isDragging, lastPos, currentPath>>
       ELSE /\ isDragging' = TRUE
            /\ lastPos' = pos
            /\ currentPath' = IF mode = DRAW THEN <<GetCanvasCoords(pos)>> ELSE currentPath
    /\ UNCHANGED <<scale, offset, paths, imgObj>>
    /\ gesture' = [down |-> TRUE, clean |-> imgObj # Null /\ mode = DRAW, moves |-> 0,
                   pts |-> IF imgObj # Null /\ mode = DRAW THEN <<GetCanvasCoords(pos)>> ELSE <<>>,
                   brush |-> brushSize, committed |-> FALSE,
                   mode |-> mode, pan |-> imgObj # Null /\ mode = PAN,
                   from |-> IF imgObj # Null /\ mode = PAN THEN pos ELSE Origin,
                   offset0 |-> IF imgObj # Null /\ mode = PAN THEN offset ELSE Origin,
                   panned |-> FALSE, drew |-> FALSE, img |-> imgObj]
    /\ op' = Op("pointerDown")
    /\ UNCHANGED <<appVars, envVars, loads, nWheel, nPan>>

\* handlePointerMove, PAN branch: the offset after the move.
PanOffsetNoAccumulate(pos) ==
    Pt(RSub(pos.x, lastPos.x), RSub(pos.y, lastPos.y))

PanOffset(pos) ==
    LET dx == RSub(pos.x, lastPos.x)
        dy == RSub(pos.y, lastPos.y)
    IN  Pt(RAdd(offset.x, dx), RAdd(offset.y, dy))

handlePointerMove(pos) ==
    LET active == isDragging /\ imgObj # Null
        clean == gesture.down /\ gesture.clean /\ imgObj # Null /\ mode = DRAW
    IN  /\ Mounted /\ ~Covered
        /\ IF ~active
           THEN UNCHANGED <<offset, lastPos, currentPath, nPan>>
           ELSE IF mode = PAN
           THEN /\ offset' = PanOffset(pos)
                /\ lastPos' = pos
                /\ nPan' = nPan + 1
                /\ UNCHANGED currentPath
           ELSE /\ currentPath' = ExtendPath(currentPath, GetCanvasCoords(pos))
                /\ lastPos' = pos
                /\ UNCHANGED <<offset, nPan>>
        /\ UNCHANGED <<scale, isDragging, paths, imgObj>>
        /\ gesture' =
              LET g == IF clean
                       THEN [gesture EXCEPT !.moves = @ + 1,
                                            !.pts = Append(@, GetCanvasCoords(pos))]
                       ELSE [gesture EXCEPT !.clean = FALSE, !.moves = 0, !.pts = <<>>]
                  h == IF active /\ mode = PAN THEN g ELSE NoPan(g)
              IN  [h EXCEPT !.panned = @ \/ (active /\ mode = PAN /\ PanOffset(pos) # offset),
                            !.drew = @ \/ (active /\ mode = DRAW)]
        /\ op' = Op("pointerMove")
        /\ UNCHANGED <<appVars, envVars, loads, nWheel>>

\* Bound to onMouseUp, onMouseLeave and onTouchEnd.
handlePointerUp ==
    LET commit == isDragging /\ mode = DRAW /\ Len(currentPath) > 0
    IN  /\ Mounted
        /\ paths' = IF commit THEN CommitPath(paths) ELSE paths
        /\ hasMask' = IF commit THEN MaskChangeEffect(paths') ELSE hasMask
        /\ isDragging' = FALSE
        /\ currentPath' = UpCurrentPath
        /\ UNCHANGED <<scale, offset, lastPos, imgObj>>
        /\ gesture' = IF gesture.down
                      THEN [gesture EXCEPT !.down = FALSE, !.committed = commit]
                      ELSE [NoGesture EXCEPT !.committed = commit]
        /\ op' = Op("pointerUp")
        /\ UNCHANGED <<imageSrc, resultImage, mode, brushSize, isProcessing, showCompare>>
        /\ UNCHANGED <<envVars, loads, nWheel, nPan>>

handleWheel(mouse, deltaY) ==
    /\ Mounted /\ ~Covered
    /\ IF imgObj = Null
       THEN UNCHANGED <<scale, offset, nWheel>>
       ELSE LET newScale == ZoomScale(deltaY)
            IN  /\ scale' = newScale
                /\ offset' = ZoomOffset(mouse, newScale)
                /\ nWheel' = nWheel + 1
    /\ UNCHANGED <<isDragging, lastPos, paths, currentPath, imgObj>>
    /\ op' = OpAt("wheel", mouse)
    /\ gesture' = Disturbed(gesture)
    /\ UNCHANGED <<appVars, envVars, loads, nPan>>

(***************************************************************************)
(* CanvasBoard: the image-load effect's callback and the imperative handle.*)
(***************************************************************************)
\* What img.onload leaves in paths.
OnloadPathsKept == paths

OnloadPaths == <<>>

\* img.onload of an Image created by the load effect.
imgOnload(img, c) ==
    /\ img \in loads
    /\ loads' = loads \ {img}
    /\ imgObj' = img
    /\ scale' = FitScale(img, c)
    /\ offset' = FitOffset(img, c)
    /\ paths' = OnloadPaths
    /\ hasMask' = MaskChangeEffect(paths')
    /\ UNCHANGED <<isDragging, lastPos, currentPath>>
    /\ op' = OpAt("imgOnload", Pt(Rat(c[1]), Rat(c[2])))
    /\ nWheel' = 0
    /\ nPan' = 0
    /\ UNCHANGED <<imageSrc, resultImage, mode, brushSize, isProcessing, showCompare>>
    /\ gesture' = Disturbed(gesture)
    /\ UNCHANGED envVars

resetMask ==
    /\ Mounted
    /\ paths' = <<>>
    /\ hasMask' = MaskChangeEffect(paths')
    /\ UNCHANGED <<scale, offset, isDragging, lastPos, currentPath, imgObj>>
    /\ op' = Op("resetMask")
    /\ UNCHANGED <<imageSrc, resultImage, mode, brushSize, isProcessing, showCompare>>
    /\ gesture' = Keep(gesture)
    /\ UNCHANGED <<envVars, loads, nWheel, nPan>>

undo ==
    /\ Mounted
    /\ paths' = SliceDropLast(paths)
    /\ hasMask' = MaskChangeEffect(paths')
    /\ UNCHANGED <<scale, offset, isDragging, lastPos, currentPath, imgObj>>
    /\ op' = OpUndo
    /\ UNCHANGED <<imageSrc, resultImage, mode, brushSize, isProcessing, showCompare>>
    /\ gesture' = Keep(gesture)
    /\ UNCHANGED <<envVars, loads, nWheel, nPan>>


(***************************************************************************)
(* App: CanvasBoard is mounted when imageSrc becomes non-null and          *)
(* unmounted when it becomes null; while it stays mounted, a changed       *)
(* imageSrc re-runs its load effect, which creates another Image and does  *)
(* not cancel the ones still loading.                                      *)
(***************************************************************************)
\* A CanvasBoard that kept its committed strokes over an unmount.
BoardFreshPathsKept ==
    /\ scale' = Rat(1)
    /\ offset' = Origin
    /\ isDragging' = FALSE
    /\ lastPos' = Origin
    /\ paths' = paths
    /\ currentPath' = <<>>
    /\ imgObj' = Null
    /\ gesture' = NoGesture
    /\ nWheel' = 0
    /\ nPan' = 0

\* A freshly mounted (or unmounted) CanvasBoard: its useState initial values.
BoardFresh ==
    /\ scale' = Rat(1)
    /\ offset' = Origin
    /\ isDragging' = FALSE
    /\ lastPos' = Origin
    /\ paths' = <<>>
    /\ currentPath' = <<>>
    /\ imgObj' = Null
    /\ gesture' = NoGesture
    /\ nWheel' = 0
    /\ nPan' = 0

\* The Images loading after imageSrc is set to src (load effect, deps [imageSrc]).
LoadEffect(src) ==
    IF imageSrc = Null THEN {src}
    ELSE IF src # imageSrc THEN loads \cup {src}
    ELSE loads

\* The file input exists only on the upload screen (no image source).
handleFileChange(file) ==
    /\ imageSrc = Null
    /\ readers' = readers \cup {file}
    /\ op' = Op("fileChange")
    /\ gesture' = Keep(gesture)
    /\ UNCHANGED <<appVars, request, boardVars, loads, nWheel, nPan>>

\* reader.onload of handleFileChange.
readerOnload(file) ==
    /\ file \in readers
    /\ readers' = readers \ {file}
    /\ imageSrc' = file
    /\ resultImage' = Null
    /\ showCompare' = FALSE
    /\ loads' = LoadEffect(file)
    /\ IF imageSrc = Null
       THEN BoardFresh /\ hasMask' = MaskChangeEffect(paths')
       ELSE gesture' = Keep(gesture) /\ UNCHANGED <<boardVars, hasMask, nWheel, nPan>>
    /\ op' = Op("readerOnload")
    /\ UNCHANGED <<mode, brushSize, isProcessing, request>>

\* A start button that is not disabled while processing.
handleProcessNotDisabled ==
    /\ Mounted /\ ~showCompare /\ hasMask
    /\ LET maskData == GetMaskDataURL
       IN  IF maskData = NoMask
           THEN UNCHANGED <<isProcessing, request>>
           ELSE /\ isProcessing' = TRUE
                /\ request' = [original |-> imageSrc, mask |-> maskData, before |-> Before]
    /\ op' = Op("process")
    /\ UNCHANGED <<imageSrc, resultImage, mode, brushSize, hasMask, showCompare>>
    /\ gesture' = Keep(gesture)
    /\ UNCHANGED <<readers, boardVars, loads, nWheel, nPan>>

\* The start button: shown without the comparison, reachable by the pointer
\* once hasMask, disabled while processing.
handleProcess ==
    /\ Mounted /\ ~showCompare /\ hasMask /\ ~isProcessing
    /\ LET maskData == GetMaskDataURL
       IN  IF maskData = NoMask
           THEN UNCHANGED <<isProcessing, request>>
           ELSE /\ isProcessing' = TRUE
                /\ request' = [original |-> imageSrc, mask |-> maskData, before |-> Before]
    /\ op' = Op("process")
    /\ UNCHANGED <<imageSrc, resultImage, mode, brushSize, hasMask, showCompare>>
    /\ gesture' = Keep(gesture)
    /\ UNCHANGED <<readers, boardVars, loads, nWheel, nPan>>

\* removeWatermark resolves: the rest of handleProcess's try block, then finally.
processResolved ==
    /\ request # NoRequest
    /\ resultImage' = Result(request.original)
    /\ showCompare' = TRUE
    /\ isProcessing' = FALSE
    /\ request' = NoRequest
    /\ op' = Op("processResolved")
    /\ UNCHANGED <<imageSrc, mode, brushSize, hasMask>>
    /\ gesture' = Keep(gesture)
    /\ UNCHANGED <<readers, boardVars, loads, nWheel, nPan>>

\* removeWatermark throws: catch, then finally.
processRejected ==
    /\ request # NoRequest
    /\ isProcessing' = FALSE
    /\ request' = NoRequest
    /\ op' = Op("processRejected")
    /\ UNCHANGED <<imageSrc, resultImage, mode, brushSize, hasMask, showCompare>>
    /\ gesture' = Keep(gesture)
    /\ UNCHANGED <<readers, boardVars, loads, nWheel, nPan>>

\* A handleApply that does not reset the mask.
handleApplyMaskKept ==
    /\ Mounted /\ showCompare /\ resultImage # Null
    /\ imageSrc' = resultImage
    /\ resultImage' = Null
    /\ showCompare' = FALSE
    /\ loads' = LoadEffect(resultImage)
    /\ op' = Op("apply")
    /\ UNCHANGED <<scale, offset, isDragging, lastPos, paths, currentPath, imgObj, hasMask>>
    /\ gesture' = Keep(gesture)
    /\ UNCHANGED <<mode, brushSize, isProcessing, envVars, nWheel, nPan>>

\* onApply of the comparison view, which is rendered when
\* showCompare && resultImage && imageSrc.
handleApply ==
    /\ Mounted /\ showCompare /\ resultImage # Null
    /\ imageSrc' = resultImage
    /\ resultImage' = Null
    /\ showCompare' = FALSE
    /\ paths' = <<>>
    /\ hasMask' = MaskChangeEffect(paths')
    /\ loads' = LoadEffect(resultImage)
    /\ op' = Op("apply")
    /\ UNCHANGED <<scale, offset, isDragging, lastPos, currentPath, imgObj>>
    /\ gesture' = Keep(gesture)
    /\ UNCHANGED <<mode, brushSize, isProcessing, envVars, nWheel, nPan>>

\* onClose of the comparison view.
closeCompare ==
    /\ Mounted /\ showCompare /\ resultImage # Null
    /\ showCompare' = FALSE
    /\ op' = Op("closeCompare")
    /\ UNCHANGED <<imageSrc, resultImage, mode, brushSize, isProcessing, hasMask>>
    /\ gesture' = Keep(gesture)
    /\ UNCHANGED <<envVars, boardVars, loads, nWheel, nPan>>

\* The header button, shown while there is an image source.  CanvasBoard
\* unmounts; callbacks of Images still loading then set nothing.
handleResetImage ==
    /\ Mounted
    /\ imageSrc' = Null
    /\ resultImage' = Null
    /\ hasMask' = FALSE
    /\ showCompare' = FALSE
    /\ BoardFresh
    /\ loads' = {}
    /\ op' = Op("resetImage")
    /\ UNCHANGED <<mode, brushSize, isProcessing, envVars>>

\* The mode switcher of the footer toolbar.
setMode(m) ==
    /\ Mounted
    /\ m # mode
    /\ mode' = m
    /\ op' = Op("setMode")
    /\ UNCHANGED <<imageSrc, resultImage, brushSize, isProcessing, hasMask, showCompare>>
    /\ gesture' = Keep(gesture)
    /\ UNCHANGED <<envVars, boardVars, loads, nWheel, nPan>>

\* The brush slider of the footer toolbar.
setBrushSize(b) ==
    /\ Mounted
    /\ b # brushSize
    /\ brushSize' = b
    /\ op' = Op("setBrushSize")
    /\ UNCHANGED <<imageSrc, resultImage, mode, isProcessing, hasMask, showCompare>>
    /\ gesture' = Keep(gesture)
    /\ UNCHANGED <<envVars, boardVars, loads, nWheel, nPan>>

(***************************************************************************)
(* Bounds are guards of the specifications, not of the handlers.           *)
(***************************************************************************)
\* handlePointerMove keeps the candidate within maxPts points and the pan
\* moves since the last image load within maxPan.
MoveWithin(maxPts, maxPan) ==
    (isDragging /\ imgObj # Null) =>
        IF mode = PAN THEN nPan < maxPan ELSE Len(currentPath) < maxPts

\* handlePointerUp keeps the committed list within maxPaths strokes.
UpWithin(maxPaths) ==
    (isDragging /\ mode = DRAW /\ Len(currentPath) > 0) => Len(paths) < maxPaths

\* handleWheel keeps the zooms since the last image load within maxWheel.
WheelWithin(maxWheel) == imgObj # Null => nWheel < maxWheel

(***************************************************************************)
(* Spec: painting.  One image is uploaded, loaded and closed; the user     *)
(* paints strokes with the paint tool, changes the brush size, undoes and  *)
(* clears.                                                                 *)
(***************************************************************************)
MaxPaths == 2       \* committed strokes kept at once
MaxPts == 2         \* points in one candidate stroke

PaintUploads == {[id |-> "A", gen |-> 0]}

PaintNext ==
    \/ \E pos \in ScreenPts : handlePointerDown(pos)
    \/ \E pos \in ScreenPts : MoveWithin(MaxPts, 0) /\ handlePointerMove(pos)
    \/ UpWithin(MaxPaths) /\ handlePointerUp
    \/ \E img \in loads, c \in ContainerSizes : imgOnload(img, c)
    \/ resetMask
    \/ undo
    \/ \E file \in PaintUploads : handleFileChange(file)
    \/ \E file \in readers : readerOnload(file)
    \/ handleResetImage
    \/ \E b \in BrushSizes : setBrushSize(b)

Spec == Init /\ [][PaintNext]_vars

(***************************************************************************)
(* SpecZoom: zooming and panning.  Images are uploaded one at a time,      *)
(* loaded and closed; the user zooms with the wheel and drags with the pan *)
(* tool, and does not paint.                                               *)
(***************************************************************************)
ZoomMaxWheel == 2   \* wheel zooms per loaded image
ZoomMaxPan == 1     \* pan moves per loaded image

ZoomNext ==
    \/ \E pos \in ScreenPts : mode = PAN /\ handlePointerDown(pos)
    \/ \E pos \in ScreenPts : mode = PAN /\ MoveWithin(0, ZoomMaxPan) /\ handlePointerMove(pos)
    \/ mode = PAN /\ handlePointerUp
    \/ \E mouse \in ScreenPts, deltaY \in WheelDeltas :
          WheelWithin(ZoomMaxWheel) /\ handleWheel(mouse, deltaY)
    \/ \E img \in loads, c \in ContainerSizes : imgOnload(img, c)
    \/ \E file \in Uploads : readers = {} /\ handleFileChange(file)
    \/ \E file \in readers : readerOnload(file)
    \/ handleResetImage
    \/ \E m \in ToolMode : setMode(m)

SpecZoom == Init /\ [][ZoomNext]_vars

(***************************************************************************)
(* SpecView: painting under a changing viewport.  One image is uploaded,   *)
(* loaded and closed; the user zooms, pans with the pan tool and paints by *)
(* tapping with the paint tool.                                            *)
(***************************************************************************)
ViewMaxPaths == 1   \* committed strokes kept at once
MaxWheel == 1       \* wheel zooms per loaded image
MaxPan == 1         \* pan moves per loaded image

ViewNext ==
    \/ \E pos \in ScreenPts : handlePointerDown(pos)
    \/ \E pos \in ScreenPts : mode = PAN /\ MoveWithin(0, MaxPan) /\ handlePointerMove(pos)
    \/ UpWithin(ViewMaxPaths) /\ handlePointerUp
    \/ \E mouse \in ScreenPts, deltaY \in WheelDeltas :
          WheelWithin(MaxWheel) /\ handleWheel(mouse, deltaY)
    \/ \E img \in loads, c \in ContainerSizes : imgOnload(img, c)
    \/ \E file \in PaintUploads : handleFileChange(file)
    \/ \E file \in readers : readerOnload(file)
    \/ handleResetImage
    \/ \E m \in ToolMode : setMode(m)

SpecView == Init /\ [][ViewNext]_vars

(***************************************************************************)
(* SpecApp: the edit workflow around the canvas.  Images are uploaded      *)
(* (also two at once), edited, compared, applied and closed; the user      *)
(* paints by tapping with the default tool and does not pan or zoom.       *)
(***************************************************************************)
AppMaxPaths == 2    \* committed strokes kept at once
MaxGen == 1         \* edits applied on top of one upload

AppNext ==
    \/ \E pos \in ScreenPts : handlePointerDown(pos)
    \/ UpWithin(AppMaxPaths) /\ handlePointerUp
    \/ \E img \in loads, c \in ContainerSizes : imgOnload(img, c)
    \/ resetMask
    \/ undo
    \/ \E file \in Uploads : handleFileChange(file)
    \/ \E file \in readers : readerOnload(file)
    \/ imageSrc.gen < MaxGen /\ handleProcess
    \/ processResolved
    \/ processRejected
    \/ handleApply
    \/ closeCompare
    \/ handleResetImage

SpecApp == Init /\ [][AppNext]_vars


(***************************************************************************)
(* SpecGesture: gestures under tool changes.  One image is uploaded,       *)
(* loaded and closed; the user presses, moves and releases the pointer and *)
(* switches between the paint and the pan tool, also during a gesture.     *)
(***************************************************************************)
GestMaxPaths == 1   \* committed strokes kept at once
GestMaxPts == 1     \* points in one candidate stroke
GestMaxPan == 2     \* pan moves per loaded image

GestureNext ==
    \/ \E pos \in ScreenPts : handlePointerDown(pos)
    \/ \E pos \in ScreenPts : MoveWithin(GestMaxPts, GestMaxPan) /\ handlePointerMove(pos)
    \/ UpWithin(GestMaxPaths) /\ handlePointerUp
    \/ \E img \in loads, c \in ContainerSizes : imgOnload(img, c)
    \/ \E file \in PaintUploads : handleFileChange(file)
    \/ \E file \in readers : readerOnload(file)
    \/ handleResetImage
    \/ \E m \in ToolMode : setMode(m)

SpecGesture == Init /\ [][GestureNext]_vars

(***************************************************************************)
(* SpecFit: fit-to-container.  Images of two sizes are uploaded (also two  *)
(* at once), loaded into containers of several sizes and closed; the user  *)
(* zooms with the wheel.                                                   *)
(***************************************************************************)
FitMaxWheel == 1    \* wheel zooms per loaded image

\* clientWidth, clientHeight of the canvas container: wider, flatter and
\* larger than the images.
FitContainers == {<<200, 100>>, <<300, 50>>, <<5000, 2000>>}

FitNext ==
    \/ \E mouse \in ScreenPts, deltaY \in WheelDeltas :
          WheelWithin(FitMaxWheel) /\ handleWheel(mouse, deltaY)
    \/ \E img \in loads, c \in FitContainers : imgOnload(img, c)
    \/ \E file \in Uploads : handleFileChange(file)
    \/ \E file \in readers : readerOnload(file)
    \/ handleResetImage

SpecFit == Init /\ [][FitNext]_vars

(***************************************************************************)
(* SpecStroke: painting while zooming.  One image is uploaded, loaded and  *)
(* closed; the user paints strokes with the paint tool and turns the wheel,*)
(* also between two points of a stroke.                                    *)
(***************************************************************************)
StrokeMaxPaths == 1 \* committed strokes kept at once
StrokeMaxPts == 2   \* points in one candidate stroke
StrokeMaxWheel == 1 \* wheel zooms per loaded image

StrokeNext ==
    \/ \E pos \in ScreenPts : handlePointerDown(pos)
    \/ \E pos \in ScreenPts : MoveWithin(StrokeMaxPts, 0) /\ handlePointerMove(pos)
    \/ UpWithin(StrokeMaxPaths) /\ handlePointerUp
    \/ \E mouse \in ScreenPts, deltaY \in WheelDeltas :
          WheelWithin(StrokeMaxWheel) /\ handleWheel(mouse, deltaY)
    \/ \E img \in loads, c \in ContainerSizes : imgOnload(img, c)
    \/ \E file \in PaintUploads : handleFileChange(file)
    \/ \E file \in readers : readerOnload(file)
    \/ handleResetImage

SpecStroke == Init /\ [][StrokeNext]_vars

(***************************************************************************)
(* Properties.                                                             *)
(***************************************************************************)
Last(q) == q[Len(q)]
Front(q) == SubSeq(q, 1, Len(q) - 1)

\* The image-space point under screen point p for a scale and an offset.
ImagePoint(p, sc, off) == Pt(RDiv(RSub(p.x, off.x), sc), RDiv(RSub(p.y, off.y), sc))

\* The last event was a wheel zoom or a pan move.
ViewportStep == op.name = "wheel" \/ (op.name = "pointerMove" /\ mode = PAN)

\* C1: with an image loaded and the paint mode selected, a pointer-up that
\* ends a gesture of one pointer-down and N pointer-moves appends exactly
\* one stroke to the committed list, holding the gesture's N+1 points in
\* capture order; a pointer-up with no pointer-down before it leaves the
\* committed list unchanged.
C1_CommitAtomicity ==
    [][op'.name = "pointerUp" =>
         /\ (gesture.down /\ gesture.clean /\ mode = DRAW /\ imgObj # Null) =>
               /\ Len(paths') = Len(paths) + 1
               /\ Front(paths') = paths
               /\ Last(paths').points = gesture.pts
               /\ Len(Last(paths').points) = gesture.moves + 1
         /\ ~gesture.down => paths' = paths]_vars

\* A gesture of a pointer-down and one pointer-move to another place has
\* just been committed as the second stroke of the list.
C1_Witness ==
    /\ op.name = "pointerUp"
    /\ gesture.committed /\ gesture.clean /\ gesture.moves = 1
    /\ Len(paths) = 2
    /\ Last(paths).points = gesture.pts
    /\ gesture.pts[1] # gesture.pts[2]

\* C2 as stated: the diameter stored with a committed stroke is the brush
\* diameter that was active at the pointer-down.
C2_DiameterAtPointerDown ==
    [][(op'.name = "pointerUp" /\ gesture'.committed) =>
         Last(paths').size = gesture.brush]_vars

\* C2 amended: the diameter stored with a committed stroke is the brush
\* diameter active at the pointer-up that commits it.
C2_DiameterAtPointerUp ==
    [][(op'.name = "pointerUp" /\ gesture'.committed) =>
         Last(paths').size = brushSize]_vars

\* A stroke has just been committed after the brush size was changed
\* during its gesture.
C2_Witness ==
    /\ op.name = "pointerUp"
    /\ gesture.committed
    /\ gesture.brush # brushSize
    /\ Last(paths).size = brushSize

\* C3: right after an image finishes loading and right after the image
\* source becomes null, the committed stroke list is empty.
C3_ClearedOnLoad ==
    op.name \in {"imgOnload", "resetImage"} => paths = <<>>

\* An image has just finished loading over committed strokes.
C3_Witness ==
    /\ op.name = "imgOnload"
    /\ op.had > 0
    /\ paths = <<>>

\* C4: undo removes exactly the last committed stroke, is a no-op on an
\* empty list, and leaves the candidate stroke and the drag state alone.
C4_Undo ==
    [][op'.name = "undo" =>
         /\ paths' = (IF paths = <<>> THEN <<>> ELSE Front(paths))
         /\ currentPath' = currentPath
         /\ isDragging' = isDragging]_vars

\* undo has just removed the second of two different strokes during a drag.
C4_Witness ==
    /\ op.name = "undo"
    /\ op.had = 2
    /\ Len(paths) = 1
    /\ isDragging
    /\ currentPath # <<>>
    /\ currentPath # paths[1].points

\* C5: hasMask is true iff the committed stroke list is non-empty.
C5_HasMask == hasMask <=> (paths # <<>>)

\* resetMask has just cleared a non-empty list and hasMask is false.
C5_Witness ==
    /\ op.name = "resetMask"
    /\ op.had > 0
    /\ ~hasMask

\* C6 as stated: with an image loaded, the scale lies within
\* [minScale, maxScale] = [0.1, 10].
C6_ScaleWithinMinMax ==
    imgObj # Null => (RLe(MinScale, scale) /\ RLe(scale, MaxScale))

\* C6 amended: with an image loaded, the scale is positive and at most
\* maxScale; it is at least minScale once a wheel zoom has happened since
\* the image was loaded, and until then it is the fit scale, at most 0.9.
C6_ScaleRange ==
    imgObj # Null =>
        /\ RLt(Rat(0), scale) /\ RLe(scale, MaxScale)
        /\ nWheel > 0 => RLe(MinScale, scale)
        /\ nWheel = 0 => RLe(scale, MarginFactor)

\* A wheel zoom has just been clamped to minScale.
C6_Witness ==
    /\ op.name = "wheel"
    /\ imgObj # Null
    /\ nWheel > 0
    /\ scale = MinScale

\* C7: a wheel zoom leaves the image-space point under the cursor where it
\* was, also when the new scale is clamped.
C7_ZoomAnchor ==
    [][(op'.name = "wheel" /\ imgObj # Null) =>
         ImagePoint(op'.pos, scale', offset') = ImagePoint(op'.pos, scale, offset)]_vars

\* A second wheel zoom has just been clamped to maxScale, away from the
\* place of the pan that preceded it.
C7_Witness ==
    /\ op.name = "wheel"
    /\ nWheel = 2
    /\ nPan = 1
    /\ scale = MaxScale
    /\ op.pos # lastPos

\* C8: wheel zooms and pan moves leave the committed strokes and the
\* exported mask unchanged.
C8_MaskIgnoresViewport ==
    [][ViewportStep' =>
         /\ paths' = paths
         /\ GetMaskDataURL' = GetMaskDataURL]_vars

\* The viewport has just been zoomed, after a pan, over a committed stroke.
C8_Witness ==
    /\ op.name = "wheel"
    /\ nWheel = 1
    /\ nPan = 1
    /\ paths # <<>>
    /\ GetMaskDataURL.strokes # <<>>

\* C9: the mask passed to removeWatermark was rasterized at the pixel
\* dimensions of the original image passed with it, over that image.
C9_MaskMatchesOriginal ==
    request # NoRequest =>
        /\ request.mask.width = Width(request.original)
        /\ request.mask.height = Height(request.original)
        /\ request.mask.over = request.original

\* C10: while an edit request is in flight, the committed stroke list does
\* not change.
C10_NoMaskEditWhileProcessing ==
    [][isProcessing => paths' = paths]_vars

\* C11: within one gesture, pointer moves never both change the pan offset
\* and append points to the candidate stroke, and a gesture whose
\* pointer-down happened in the pan mode does not commit a stroke, whatever
\* mode changes happen during the gesture.
C11_DrawPanExclusive ==
    [][/\ ~(gesture'.panned /\ gesture'.drew)
       /\ (op'.name = "pointerUp" /\ gesture.down /\ gesture.mode = PAN) =>
             paths' = paths]_vars

\* C12: with no image loaded, pointer-down, pointer-move, pointer-up and
\* wheel leave scale, offset, drag state, candidate stroke and committed
\* list unchanged, and getMaskDataURL returns null.
C12_NoImageNoOp ==
    [][(imgObj = Null /\ op'.name \in {"pointerDown", "pointerMove", "pointerUp", "wheel"}) =>
          /\ UNCHANGED <<scale, offset, isDragging, currentPath, paths>>
          /\ GetMaskDataURL' = NoMask]_vars

\* A wheel event has just been handled on a mounted canvas whose image has
\* not loaded yet.
C12_Witness ==
    /\ op.name = "wheel"
    /\ imageSrc # Null
    /\ imgObj = Null
    /\ loads # {}

\* C13: at every viewport scale, the width in image-space units at which the
\* live preview draws a committed stroke equals the width at which the
\* exported mask paints it (the stroke's recorded diameter), and so is the
\* same at all zoom levels.
C13_PreviewWidthIsMaskWidth ==
    imgObj # Null =>
        \A i \in 1..Len(paths) : PreviewLineWidth(paths[i]) = MaskLineWidth(paths[i])

\* C14: the scale computed on image load is
\* min(containerW/imageW, containerH/imageH, 1) x 0.9 and at most 1, the
\* scaled image is centered (equal margins left and right, top and bottom),
\* and its scaled width and height are at most 0.9 of the container's.
C14_FitToContainer ==
    op.name = "imgOnload" =>
        LET cW == op.pos.x
            cH == op.pos.y
            iW == Rat(Width(imgObj))
            iH == Rat(Height(imgObj))
        IN  /\ scale = RMul(RMin(RMin(RDiv(cW, iW), RDiv(cH, iH)), Rat(1)), <<9, 10>>)
            /\ RLe(scale, Rat(1))
            /\ offset.x = RSub(RSub(cW, RMul(iW, scale)), offset.x)
            /\ offset.y = RSub(RSub(cH, RMul(iH, scale)), offset.y)
            /\ RLe(RMul(iW, scale), RMul(<<9, 10>>, cW))
            /\ RLe(RMul(iH, scale), RMul(<<9, 10>>, cH))

\* An image has just been loaded into a container larger than it: the cap of
\* 1 decides the scale and the image is strictly inside the margin.
C14_Witness ==
    /\ op.name = "imgOnload"
    /\ scale = <<9, 10>>
    /\ RLt(RMul(Rat(Width(imgObj)), scale), RMul(<<9, 10>>, op.pos.x))
    /\ RLt(RMul(Rat(Height(imgObj)), scale), RMul(<<9, 10>>, op.pos.y))
    /\ RLt(Rat(0), offset.x)

\* The last event is one that removes committed strokes: undo, reset (also
\* the one of applying a result), an image load, or closing the image.
RemovalStep == op.name \in {"undo", "resetMask", "apply", "imgOnload", "resetImage"}

\* C15: a commit adds the new stroke at the end of the committed list, and
\* every operation other than undo, reset and image load or unload leaves
\* the committed strokes unchanged and in the same order.
C15_AppendOnly ==
    [][~RemovalStep' =>
          \/ paths' = paths
          \/ /\ op'.name = "pointerUp"
             /\ Len(paths') = Len(paths) + 1
             /\ Front(paths') = paths]_vars

\* A second, different stroke has just been committed behind the first.
C15_Witness ==
    /\ op.name = "pointerUp"
    /\ gesture.committed
    /\ op.had = 1
    /\ Len(paths) = 2
    /\ paths[1] # paths[2]

\* C16: from a committed list of n strokes, k undos in a row leave n - k
\* strokes while k <= n and an empty list from the n-th on; each undo
\* removes one stroke or, on an empty list, none.
C16_RepeatedUndo ==
    op.name = "undo" =>
        /\ op.run < MaxUndoRun =>
              Len(paths) = (IF op.start > op.run THEN op.start - op.run ELSE 0)
        /\ op.run = MaxUndoRun =>
              Len(paths) <= (IF op.start > op.run THEN op.start - op.run ELSE 0)
        /\ Len(paths) = (IF op.had > 0 THEN op.had - 1 ELSE 0)

\* A third undo in a row has just been handled on the list that the second
\* one emptied.
C16_Witness ==
    /\ op.name = "undo"
    /\ op.start = 2
    /\ op.run = 3
    /\ op.had = 0
    /\ paths = <<>>

\* C17: after every pointer-up (and pointer-leave, bound to the same handler)
\* isDragging is false and the candidate stroke is empty, whatever the mode,
\* the point count and whether a stroke was committed.
C17_PointerUpIdle ==
    op.name = "pointerUp" => (~isDragging /\ currentPath = <<>>)

\* A gesture that collected points with the paint tool has just ended under
\* the pan tool, with no stroke committed.
C17_Witness ==
    /\ op.name = "pointerUp"
    /\ gesture.brush > 0
    /\ gesture.drew
    /\ ~gesture.committed
    /\ mode = PAN
    /\ ~isDragging
    /\ currentPath = <<>>

\* C18: every point stored in a candidate or committed stroke is
\* (screen - offset) / scale for the scale and offset in force when its
\* pointer event was handled; a wheel zoom changes no point already stored.
C18_CaptureTimeConversion ==
    [][/\ (op'.name = "pointerDown" /\ imgObj # Null /\ mode = DRAW) =>
             currentPath' = <<ImagePoint(lastPos', scale, offset)>>
       /\ (op'.name = "pointerMove" /\ isDragging /\ imgObj # Null /\ mode = DRAW) =>
             currentPath' = Append(currentPath, ImagePoint(lastPos', scale, offset))
       /\ (op'.name = "pointerUp" /\ paths' # paths) =>
             paths' = Append(paths, [points |-> currentPath, size |-> Last(paths').size])
       /\ op'.name = "wheel" =>
             (currentPath' = currentPath /\ paths' = paths)]_vars

\* The second point of a candidate stroke has just been stored after a wheel
\* zoom that followed the first: no screen point converts to the first point
\* under the viewport now in force.
C18_Witness ==
    /\ op.name = "pointerMove"
    /\ nWheel = 1
    /\ Len(currentPath) = 2
    /\ currentPath[2] = ImagePoint(lastPos, scale, offset)
    /\ \A p \in ScreenPts : currentPath[1] # ImagePoint(p, scale, offset)

\* C19: during and after a pan-mode gesture with pointer-down at p0 and
\* pointer moves to p1..pn, the offset is the offset at the pointer-down
\* plus (pn - p0), without clamping, and the moves leave the scale and the
\* committed strokes unchanged.
C19_PanAccumulates ==
    [][/\ gesture'.pan =>
             offset' = Pt(RAdd(gesture'.offset0.x, RSub(lastPos'.x, gesture'.from.x)),
                          RAdd(gesture'.offset0.y, RSub(lastPos'.y, gesture'.from.y)))
       /\ (op'.name = "pointerMove" /\ gesture'.pan) =>
             (scale' = scale /\ paths' = paths)]_vars

\* A pan gesture of two moves has just ended away from where it began, over
\* a committed stroke.
C19_Witness ==
    /\ op.name = "pointerUp"
    /\ gesture.pan
    /\ gesture.panned
    /\ nPan = 2
    /\ lastPos # gesture.from
    /\ offset # gesture.offset0
    /\ paths # <<>>

\* C20: when the edit request fails, isProcessing becomes false and
\* imageSrc, resultImage, showCompare and the committed strokes are what
\* they were before the request; when it succeeds, resultImage is the
\* returned image, showCompare is true and isProcessing is false.
C20_RequestSettles ==
    [][/\ op'.name = "processRejected" =>
             /\ ~isProcessing'
             /\ imageSrc' = request.original
             /\ resultImage' = request.before.resultImage
             /\ showCompare' = request.before.showCompare
             /\ paths' = request.before.paths
       /\ op'.name = "processResolved" =>
             /\ resultImage' = Result(request.original)
             /\ showCompare'
             /\ ~isProcessing']_vars

\* C21: whenever no image is loaded (imgObj is null) the committed stroke list
\* is empty, whatever the order of uploads, image loads, applied edits,
\* closing the image and pointer gestures.
C21_EmptyWithoutImage == imgObj = Null => paths = <<>>

\* The image was closed while strokes were committed, and none is loaded since.
C21_Witness == op.name = "resetImage" /\ op.had > 0 /\ imgObj = Null

\* C22: a committed stroke holds only points captured while the image now
\* loaded was the loaded one: when a pointer-up commits the stroke of a gesture
\* painted with the paint tool throughout, the image loaded at its
\* pointer-down, where its first point was captured, is the image loaded now.
C22_StrokeOfLoadedImage ==
    (op.name = "pointerUp" /\ gesture.committed /\ gesture.clean) => gesture.img = imgObj

\* C23: once every pending load callback has run, the loaded image object is
\* the one of the most recent image source, in whatever order the callbacks
\* completed.
C23_LatestSourceLoaded == (Mounted /\ loads = {}) => imgObj = imageSrc

\* C24: whenever the comparison view is shown, the result image was generated
\* from the current image source.
C24_ResultOfCurrentImage ==
    (Mounted /\ showCompare /\ resultImage # Null) => resultImage = Result(imageSrc)

\* C25: at most one edit request is in flight: handleProcess starts a call of
\* removeWatermark only when isProcessing is false and none is pending, and
\* isProcessing is true exactly while a call is pending.
C25_OneRequestInFlight ==
    /\ [](isProcessing <=> request # NoRequest)
    /\ [][(op'.name = "process" /\ isProcessing')
             => (~isProcessing /\ request = NoRequest /\ request' # NoRequest)]_vars

\* A request is in flight while the start button is shown over a painted mask.
C25_Witness ==
    /\ isProcessing /\ request # NoRequest
    /\ Mounted /\ ~showCompare /\ hasMask /\ op.name # "process"

\* C26: handleApply runs with a result image and promotes it: afterwards
\* imageSrc is that result, resultImage is null, showCompare is false and the
\* committed stroke list is empty; the list is empty again when the applied
\* image has loaded.
C26_ApplyPromotesResult ==
    /\ [][op'.name = "apply"
             => /\ resultImage # Null
                /\ imageSrc' = resultImage
                /\ resultImage' = Null
                /\ ~showCompare'
                /\ paths' = <<>>]_vars
    /\ [][(op'.name = "imgOnload" /\ imgObj'.gen > 0) => paths' = <<>>]_vars

\* A result was applied over a painted mask.
C26_Witness ==
    /\ op.name = "apply" /\ op.had > 0
    /\ imageSrc.gen > 0 /\ resultImage = Null /\ ~showCompare /\ paths = <<>>

====
